---------------------------- MODULE Spec2Model ----------------------------
(***************************************************************************)
(* Model of validate_models.py, the glTF/GLB model validator of the        *)
(* Network Topology Builder.                                               *)
(*                                                                         *)
(* Lengths are integers counting tenths of a unit (1.2 units = 12), scale  *)
(* factors are integers counting thousandths (the script prints them with  *)
(* three decimals), colour channels are integers counting hundredths.      *)
(***************************************************************************)
EXTENDS Integers, Sequences, FiniteSets

(***************************************************************************)
(* Bounds of the model.                                                    *)
(***************************************************************************)
MaxMats == 2
MaxAccs == 2
MaxFiles == 2

(***************************************************************************)
(* Program constants.                                                      *)
(***************************************************************************)
NTB_SELECTION_RADIUS == 6
NTB_IDEAL_SIZE == 10
VERY_SMALL == 3
HALF_UNIT == 5
GLB_MAGIC == 1179937895
OTHER_MAGIC == GLB_MAGIC + 1

Max(S) == CHOOSE x \in S : \A y \in S : y <= x

SeqsUpTo(S, n) == UNION {[1..k -> S] : k \in 0..n}

(***************************************************************************)
(* The metadata tree of a container.  A key of the JSON object that may be *)
(* absent is a has_ flag next to its value.                                *)
(***************************************************************************)
Mat(has_name, name, has_pbr, has_bcf, bcf, has_tex) ==
    [has_name |-> has_name, name |-> name, has_pbr |-> has_pbr,
     has_baseColorFactor |-> has_bcf, baseColorFactor |-> bcf,
     has_baseColorTexture |-> has_tex]

MaterialEntries ==
    { Mat(FALSE, "", FALSE, FALSE, <<>>, FALSE),
      Mat(TRUE, "Body", TRUE, FALSE, <<>>, FALSE),
      Mat(TRUE, "Body", TRUE, TRUE, <<50, 50, 50, 100>>, FALSE),
      Mat(FALSE, "", TRUE, FALSE, <<>>, TRUE),
      Mat(TRUE, "Body", TRUE, TRUE, <<50, 50, 50>>, FALSE),
      Mat(TRUE, "Lid", TRUE, TRUE, <<50, 50, 50, 100, 0>>, FALSE) }

Acc(has_min, min_v, has_max, max_v) ==
    [has_min |-> has_min, min |-> min_v, has_max |-> has_max, max |-> max_v]

Box(d) == Acc(TRUE, <<0, 0, 0>>, TRUE, <<0, d, 0>>)

DimValues == {0, 2, 3, 8, 10, 11, 12, 13, 14}

AccessorEntries ==
    { Box(d) : d \in DimValues } \cup
    { Acc(TRUE, <<1, 1, 1>>, TRUE, <<0, 0, 0>>),
      Acc(FALSE, <<>>, FALSE, <<>>),
      Acc(TRUE, <<0, 0, 0>>, FALSE, <<>>),
      Acc(TRUE, <<0, 0>>, TRUE, <<14, 14, 14>>),
      Acc(TRUE, <<0, 0, 0>>, TRUE, <<14, 14>>),
      Acc(TRUE, <<0, 0, 0>>, TRUE, <<8, 8, 8, 8>>) }

Doc(has_asset, has_mats, mats, has_accs, accs) ==
    [has_asset |-> has_asset, has_materials |-> has_mats, materials |-> mats,
     has_accessors |-> has_accs, accessors |-> accs]

EmptyDoc == Doc(FALSE, FALSE, <<>>, FALSE, <<>>)

GoodMat == Mat(TRUE, "Body", TRUE, TRUE, <<50, 50, 50, 100>>, FALSE)
BareMat == Mat(FALSE, "", FALSE, FALSE, <<>>, FALSE)

MatLists == SeqsUpTo(MaterialEntries, MaxMats)
AccLists == SeqsUpTo(AccessorEntries, MaxAccs)

Documents ==
    { EmptyDoc, Doc(TRUE, FALSE, <<>>, FALSE, <<>>) } \cup
    { Doc(TRUE, TRUE, m, TRUE, a) :
        m \in MatLists, a \in {<<>>, <<Box(8)>>, <<Box(14)>>} } \cup
    { Doc(TRUE, FALSE, <<>>, TRUE, <<Box(8)>>) } \cup
    { Doc(TRUE, TRUE, m, FALSE, <<>>) : m \in {<<GoodMat>>, <<BareMat>>} } \cup
    { Doc(TRUE, TRUE, m, TRUE, a) :
        m \in {<<GoodMat>>, <<BareMat>>}, a \in AccLists }

(***************************************************************************)
(* A file on disk: whether the path exists, whether it can be opened, the  *)
(* magic number of its header, whether the 20 header bytes are all there,  *)
(* and what the metadata chunk holds.                                      *)
(***************************************************************************)
File(exists, readable, magic, complete, payload, doc) ==
    [exists |-> exists, readable |-> readable, magic |-> magic,
     complete |-> complete, payload |-> payload, doc |-> doc]

GlbFile(doc) == File(TRUE, TRUE, GLB_MAGIC, TRUE, "json", doc)

SampleDoc == Doc(TRUE, TRUE, <<GoodMat>>, TRUE, <<Box(14)>>)

BrokenFiles ==
    { File(TRUE, FALSE, GLB_MAGIC, TRUE, "json", SampleDoc),
      File(TRUE, TRUE, OTHER_MAGIC, TRUE, "json", SampleDoc),
      File(TRUE, TRUE, GLB_MAGIC, FALSE, "json", SampleDoc),
      File(TRUE, TRUE, GLB_MAGIC, TRUE, "bad_utf8", SampleDoc),
      File(TRUE, TRUE, GLB_MAGIC, TRUE, "bad_json", SampleDoc) }

MissingFile == File(FALSE, FALSE, GLB_MAGIC, TRUE, "json", SampleDoc)

AllFiles == {GlbFile(d) : d \in Documents} \cup BrokenFiles \cup {MissingFile}

MainFiles ==
    { MissingFile,
      File(TRUE, TRUE, OTHER_MAGIC, TRUE, "json", SampleDoc),
      GlbFile(Doc(TRUE, TRUE, <<GoodMat>>, TRUE, <<Box(8)>>)),
      GlbFile(Doc(TRUE, TRUE, <<GoodMat>>, TRUE, <<Box(11)>>)),
      GlbFile(Doc(TRUE, TRUE, <<GoodMat>>, TRUE, <<Box(8), Box(14)>>)),
      GlbFile(Doc(TRUE, TRUE, <<GoodMat>>, TRUE, <<Box(0)>>)),
      GlbFile(Doc(TRUE, TRUE,
                  <<Mat(TRUE, "Body", TRUE, TRUE, <<50, 50, 50>>, FALSE)>>,
                  TRUE, <<Box(8)>>)),
      GlbFile(Doc(TRUE, TRUE, <<GoodMat>>, TRUE,
                  <<Acc(TRUE, <<0, 0, 0>>, TRUE, <<14, 14>>)>>)) }

(***************************************************************************)
(* ModelIssue and ModelValidationResult.                                   *)
(***************************************************************************)
NoSubject == [text |-> "", index |-> -1]

ModelIssue(severity, category, message, subject, dim, scale) ==
    [severity |-> severity, category |-> category, message |-> message,
     subject |-> subject, dim |-> dim, scale |-> scale]

None == [present |-> FALSE, text |-> ""]
Some(t) == [present |-> TRUE, text |-> t]

ModelValidationResult ==
    [materials |-> <<>>, bounding_boxes |-> <<>>, max_dimension |-> 0,
     issues |-> <<>>, gltf_transform_output |-> None]

add_issue(result, issue) ==
    [result EXCEPT !.issues = Append(@, issue)]

has_errors(result) ==
    \E i \in 1..Len(result.issues) : result.issues[i].severity = "error"

has_warnings(result) ==
    \E i \in 1..Len(result.issues) : result.issues[i].severity = "warning"

is_healthy(result) == ~has_errors(result) /\ ~has_warnings(result)

(***************************************************************************)
(* parse_glb_file: the Document, or no Document.  Every exception of the   *)
(* body is caught and turned into no Document.                             *)
(***************************************************************************)
\* parse_glb_file without the magic-number test of line 83.
parse_glb_file_NoMagicCheck(f) ==
    IF ~f.readable THEN [ok |-> FALSE, doc |-> EmptyDoc]
    ELSE IF ~f.complete THEN [ok |-> FALSE, doc |-> EmptyDoc]
    ELSE IF f.payload # "json" THEN [ok |-> FALSE, doc |-> EmptyDoc]
    ELSE [ok |-> TRUE, doc |-> f.doc]

parse_glb_file(f) ==
    IF ~f.readable THEN [ok |-> FALSE, doc |-> EmptyDoc]
    ELSE IF f.magic # GLB_MAGIC THEN [ok |-> FALSE, doc |-> EmptyDoc]
    ELSE IF ~f.complete THEN [ok |-> FALSE, doc |-> EmptyDoc]
    ELSE IF f.payload # "json" THEN [ok |-> FALSE, doc |-> EmptyDoc]
    ELSE [ok |-> TRUE, doc |-> f.doc]

\* Python truth value of the value parse_glb_file returned.
Truthy(parsed) ==
    /\ parsed.ok
    /\ \/ parsed.doc.has_asset
       \/ parsed.doc.has_materials
       \/ parsed.doc.has_accessors

(***************************************************************************)
(* run_gltf_transform_inspect: what the subprocess did, and the text the   *)
(* function returns for it.                                                *)
(***************************************************************************)
Run(outcome, stdout) == [outcome |-> outcome, stdout |-> stdout]

NotCalled == Run("not_called", "")

InspectRuns ==
    { Run("not_found", ""), Run("timeout", ""), Run("exception", ""),
      Run("nonzero", "report"), Run("exit0", ""), Run("exit0", "report") }

\* run_gltf_transform_inspect without the return-code test of line 109.
run_gltf_transform_inspect_AnyExit(run) ==
    IF run.outcome \in {"exit0", "nonzero"} THEN Some(run.stdout) ELSE None

run_gltf_transform_inspect(run) ==
    IF run.outcome = "exit0" THEN Some(run.stdout) ELSE None

(***************************************************************************)
(* What a call did: the exception it raised ("none" when it returned), the *)
(* result it built and the divisions it executed.                          *)
(***************************************************************************)
Outcome(raised, result, divs) ==
    [raised |-> raised, result |-> result, divisions |-> divs]

Division(site, divisor) == [site |-> site, divisor |-> divisor]

\* num / den printed with three decimals, both in tenths, den # 0.
ScaleFactor(num, den) == (2000 * num + den) \div (2 * den)

(***************************************************************************)
(* validate_model, material check (lines 128-164).                         *)
(***************************************************************************)
mat_name(mat, i) ==
    IF mat.has_name THEN [text |-> mat.name, index |-> -1]
    ELSE [text |-> "Material_", index |-> i]

has_color(mat) == mat.has_pbr /\ mat.has_baseColorFactor

has_texture(mat) == mat.has_pbr /\ mat.has_baseColorTexture

\* color[3] of line 147 raises IndexError on a factor of fewer than 4 channels.
ColorRaises(mat) == has_color(mat) /\ Len(mat.baseColorFactor) < 4

mat_info(mat, i) ==
    [name |-> mat_name(mat, i), index |-> i,
     has_baseColor |-> has_color(mat),
     baseColor |-> IF has_color(mat) THEN SubSeq(mat.baseColorFactor, 1, 4)
                   ELSE <<>>,
     hasTexture |-> has_texture(mat)]

MaterialIssue(mat, i) ==
    ModelIssue("error", "material", "has no color or texture",
               mat_name(mat, i), 0, 0)

NoMaterialsIssue ==
    ModelIssue("error", "material", "No materials found in model",
               NoSubject, 0, 0)

RECURSIVE MaterialLoop(_, _, _)
MaterialLoop(mats, k, result) ==
    IF k > Len(mats) THEN Outcome("none", result, {})
    ELSE IF ColorRaises(mats[k]) THEN Outcome("IndexError", result, {})
    ELSE LET r1 == [result EXCEPT
                      !.materials = Append(@, mat_info(mats[k], k - 1))]
             r2 == IF ~has_color(mats[k]) /\ ~has_texture(mats[k])
                   THEN add_issue(r1, MaterialIssue(mats[k], k - 1))
                   ELSE r1
         IN MaterialLoop(mats, k + 1, r2)

check_materials(doc, result) ==
    IF ~doc.has_materials \/ Len(doc.materials) = 0
    THEN Outcome("none", add_issue(result, NoMaterialsIssue), {})
    ELSE MaterialLoop(doc.materials, 1, result)

(***************************************************************************)
(* validate_model, bounding boxes and max dimension (lines 166-185).       *)
(***************************************************************************)
\* The guard of line 170.
Counted(acc) == acc.has_min /\ acc.has_max /\ Len(acc.min) = 3

\* max_v[j] of line 173 raises IndexError on a max of fewer than 3 values.
SizeRaises(acc) == Counted(acc) /\ Len(acc.max) < 3

size(acc) == [j \in 1..3 |-> acc.max[j] - acc.min[j]]

\* bbox_max taking the size along the first axis instead of the largest.
bbox_max_FirstAxis(acc) == size(acc)[1]

bbox_max(acc) == Max({size(acc)[j] : j \in 1..3})

bounding_box(acc, i) ==
    [accessor |-> i, min |-> acc.min, max |-> acc.max, size |-> size(acc),
     max_dimension |-> bbox_max(acc)]

RECURSIVE AccessorLoop(_, _, _, _)
AccessorLoop(accs, k, max_dim, result) ==
    IF k > Len(accs)
    THEN Outcome("none", [result EXCEPT !.max_dimension = max_dim], {})
    ELSE IF ~Counted(accs[k]) THEN AccessorLoop(accs, k + 1, max_dim, result)
    ELSE IF SizeRaises(accs[k]) THEN Outcome("IndexError", result, {})
    ELSE AccessorLoop(accs, k + 1, Max({max_dim, bbox_max(accs[k])}),
                      [result EXCEPT !.bounding_boxes =
                         Append(@, bounding_box(accs[k], k - 1))])

(***************************************************************************)
(* validate_model, scale and selection thresholds (lines 187-201).         *)
(***************************************************************************)
\* The test of line 188 with >= in place of >.
TooLarge_Inclusive(max_dim) == max_dim >= NTB_SELECTION_RADIUS * 2

TooLarge(max_dim) == max_dim > NTB_SELECTION_RADIUS * 2

LargerThanIdeal(max_dim) == ~TooLarge(max_dim) /\ max_dim > NTB_IDEAL_SIZE

VerySmall(max_dim) ==
    ~TooLarge(max_dim) /\ ~(max_dim > NTB_IDEAL_SIZE) /\ max_dim < VERY_SMALL

guarded_scale_factor(max_dim) ==
    IF max_dim > 0 THEN ScaleFactor(NTB_IDEAL_SIZE, max_dim) ELSE 1000

classify(max_dim, result) ==
    IF TooLarge(max_dim)
    THEN Outcome("none",
           add_issue(result, ModelIssue("error", "selection", "Model too large",
                       NoSubject, max_dim, guarded_scale_factor(max_dim))),
           IF max_dim > 0 THEN {Division("validate_model:189", max_dim)} ELSE {})
    ELSE IF LargerThanIdeal(max_dim)
    THEN Outcome("none",
           add_issue(result, ModelIssue("warning", "scale",
                       "Model larger than ideal",
                       NoSubject, max_dim, guarded_scale_factor(max_dim))),
           IF max_dim > 0 THEN {Division("validate_model:194", max_dim)} ELSE {})
    ELSE IF VerySmall(max_dim)
    THEN Outcome("none",
           add_issue(result, ModelIssue("warning", "scale", "Model very small",
                       NoSubject, max_dim, 0)),
           {})
    ELSE Outcome("none", result, {})

check_bounding_boxes(doc, result) ==
    IF ~doc.has_accessors THEN Outcome("none", result, {})
    ELSE LET g == AccessorLoop(doc.accessors, 1, 0, result)
         IN IF g.raised # "none" THEN g
            ELSE classify(g.result.max_dimension, g.result)

(***************************************************************************)
(* validate_model, external inspection (lines 203-207).                    *)
(***************************************************************************)
inspect(result, show_gltf_transform, run) ==
    IF ~show_gltf_transform THEN result
    ELSE LET output == run_gltf_transform_inspect(run)
         IN IF output.present /\ output.text # ""
            THEN [result EXCEPT !.gltf_transform_output = output]
            ELSE result

StructureIssue ==
    ModelIssue("error", "structure", "Failed to parse GLB file", NoSubject, 0, 0)

\* The stages before the external inspection.
stages(f) ==
    LET parsed == parse_glb_file(f)
    IN IF ~Truthy(parsed)
       THEN Outcome("none", add_issue(ModelValidationResult, StructureIssue), {})
       ELSE LET m == check_materials(parsed.doc, ModelValidationResult)
            IN IF m.raised # "none" THEN m
               ELSE check_bounding_boxes(parsed.doc, m.result)

\* Whether validate_model gets as far as the external inspection.
ReachesInspect(f) == Truthy(parse_glb_file(f)) /\ stages(f).raised = "none"

validate_model(f, show_gltf_transform, run) ==
    LET s == stages(f)
    IN IF ~ReachesInspect(f) THEN s
       ELSE Outcome("none", inspect(s.result, show_gltf_transform, run),
                    s.divisions)

(***************************************************************************)
(* print_validation_result (lines 211-295): the header line and the        *)
(* recommended scale it prints, or the exception it raises.                *)
(***************************************************************************)
status_icon(result) ==
    IF is_healthy(result) THEN "ok"
    ELSE IF has_warnings(result) /\ ~has_errors(result) THEN "warning"
    ELSE "fail"

Report(result, recommended) ==
    [kind |-> "result", status |-> status_icon(result),
     recommended |-> recommended]

print_validation_result(result) ==
    LET max_dim == result.max_dimension
    IN IF Len(result.bounding_boxes) = 0
       THEN [raised |-> "none", line |-> Report(result, 0), divisions |-> {}]
       ELSE IF max_dim > NTB_IDEAL_SIZE
       THEN [raised |-> "none",
             line |-> Report(result, ScaleFactor(NTB_IDEAL_SIZE, max_dim)),
             divisions |-> {Division("print_validation_result:259", max_dim)}]
       ELSE IF max_dim < VERY_SMALL
       THEN IF max_dim = 0
            THEN [raised |-> "ZeroDivisionError", line |-> Report(result, 0),
                  divisions |->
                    {Division("print_validation_result:262", max_dim)}]
            ELSE [raised |-> "none",
                  line |-> Report(result, ScaleFactor(HALF_UNIT, max_dim)),
                  divisions |->
                    {Division("print_validation_result:262", max_dim)}]
       ELSE [raised |-> "none", line |-> Report(result, 0), divisions |-> {}]

(***************************************************************************)
(* print_summary (lines 306-319) and the exit code of main (382-384).      *)
(***************************************************************************)
WarningsOnly(r) == has_warnings(r) /\ ~has_errors(r)

print_summary(rs) ==
    [total |-> Len(rs),
     healthy |-> Cardinality({i \in 1..Len(rs) : is_healthy(rs[i])}),
     warnings_only |-> Cardinality({i \in 1..Len(rs) : WarningsOnly(rs[i])}),
     errors |-> Cardinality({i \in 1..Len(rs) : has_errors(rs[i])})]

exit_status(rs) ==
    IF \E i \in 1..Len(rs) : has_errors(rs[i]) THEN 1 ELSE 0

\* Line 387, sys.exit(main()): the exit status of the process is what main
\* returned, and 1 when an exception left main uncaught.
process_exit(state, returned) ==
    IF state = "raised" THEN <<1>> ELSE returned

(***************************************************************************)
(* The state of one run of main.                                           *)
(***************************************************************************)
VARIABLES
    args,          \* the parsed command line: files, no_gltf_transform, summary_only
    model_files,   \* the files to validate
    idx,           \* position of the loop of line 366 in model_files
    results,       \* the results list of main
    inspect_runs,  \* what the inspection subprocess did for each result
    divisions,     \* every division executed so far: where, and by what
    stdout,        \* what was printed
    summary,       \* the counts print_summary printed, if it was called
    pc,            \* "start", "loop", "print", "done", "raised"
    exception,     \* the uncaught exception, "none" while there is none
    main_return    \* <<code>> once main has returned

vars == <<args, model_files, idx, results, inspect_runs, divisions, stdout,
          summary, pc, exception, main_return>>

\* What find_all_models returns: the sorted .glb paths under public/models.
DiscoveredLists ==
    { <<>>,
      <<GlbFile(Doc(TRUE, TRUE, <<GoodMat>>, TRUE, <<Box(8)>>))>>,
      <<GlbFile(Doc(TRUE, TRUE, <<GoodMat>>, TRUE, <<Box(8)>>)),
        GlbFile(Doc(TRUE, TRUE, <<GoodMat>>, TRUE, <<Box(11)>>))>> }

InitWith(lists) ==
    /\ args \in [files : lists, no_gltf_transform : BOOLEAN,
                 summary_only : BOOLEAN]
    /\ model_files = <<>>
    /\ idx = 1
    /\ results = <<>>
    /\ inspect_runs = <<>>
    /\ divisions = {}
    /\ stdout = <<>>
    /\ summary = <<>>
    /\ pc = "start"
    /\ exception = "none"
    /\ main_return = <<>>

\* One file of any content on the command line.
Init == InitWith(SeqsUpTo(AllFiles, 1))

\* Several files on the command line.
InitMain == InitWith(SeqsUpTo(MainFiles, MaxFiles))

\* Lines 354-355: files were named on the command line.
UseGivenFiles ==
    /\ pc = "start"
    /\ Len(args.files) > 0
    /\ model_files' = args.files
    /\ pc' = "loop"
    /\ UNCHANGED <<args, idx, results, inspect_runs, divisions, stdout,
                   summary, exception, main_return>>

\* Lines 356-362: the scan of public/models found files.
ScanFoundModels ==
    /\ pc = "start"
    /\ Len(args.files) = 0
    /\ \E found \in DiscoveredLists :
         /\ Len(found) > 0
         /\ model_files' = found
    /\ pc' = "loop"
    /\ UNCHANGED <<args, idx, results, inspect_runs, divisions, stdout,
                   summary, exception, main_return>>

\* Lines 359-361: the scan found nothing, main returns 1.
ScanFoundNothing ==
    /\ pc = "start"
    /\ Len(args.files) = 0
    /\ <<>> \in DiscoveredLists
    /\ stdout' = Append(stdout, [kind |-> "no_models", status |-> "fail",
                                 recommended |-> 0])
    /\ main_return' = <<1>>
    /\ pc' = "done"
    /\ UNCHANGED <<args, model_files, idx, results, inspect_runs, divisions,
                   summary, exception>>

\* Lines 367-369: the path does not exist.
SkipMissingFile ==
    /\ pc = "loop"
    /\ idx <= Len(model_files)
    /\ ~model_files[idx].exists
    /\ stdout' = Append(stdout, [kind |-> "not_found", status |-> "fail",
                                 recommended |-> 0])
    /\ idx' = idx + 1
    /\ UNCHANGED <<args, model_files, results, inspect_runs, divisions,
                   summary, pc, exception, main_return>>

\* Lines 371-372: validate_model on the next file, and the append of its result.
ValidateFile ==
    /\ pc = "loop"
    /\ idx <= Len(model_files)
    /\ model_files[idx].exists
    /\ LET f == model_files[idx]
           show == ~args.no_gltf_transform
       IN \E run \in IF show /\ ReachesInspect(f) THEN InspectRuns
                     ELSE {NotCalled} :
            LET out == validate_model(f, show, run)
            IN /\ divisions' = divisions \cup out.divisions
               /\ IF out.raised # "none"
                  THEN /\ exception' = out.raised
                       /\ pc' = "raised"
                       /\ UNCHANGED <<results, inspect_runs, idx>>
                  ELSE /\ results' = Append(results, out.result)
                       /\ inspect_runs' = Append(inspect_runs, run)
                       /\ pc' = IF args.summary_only THEN "loop" ELSE "print"
                       /\ idx' = IF args.summary_only THEN idx + 1 ELSE idx
                       /\ UNCHANGED exception
    /\ UNCHANGED <<args, model_files, stdout, summary, main_return>>

\* Lines 374-375: the report of the result just appended.
PrintResult ==
    /\ pc = "print"
    /\ LET out == print_validation_result(results[Len(results)])
       IN /\ divisions' = divisions \cup out.divisions
          /\ stdout' = Append(stdout, out.line)
          /\ IF out.raised # "none"
             THEN /\ exception' = out.raised
                  /\ pc' = "raised"
                  /\ UNCHANGED idx
             ELSE /\ pc' = "loop"
                  /\ idx' = idx + 1
                  /\ UNCHANGED exception
    /\ UNCHANGED <<args, model_files, results, inspect_runs, summary,
                   main_return>>

\* Lines 377-384: the summary and the exit code.
Finish ==
    /\ pc = "loop"
    /\ idx > Len(model_files)
    /\ summary' = IF Len(results) > 1 THEN <<print_summary(results)>> ELSE <<>>
    /\ main_return' = <<exit_status(results)>>
    /\ pc' = "done"
    /\ UNCHANGED <<args, model_files, idx, results, inspect_runs, divisions,
                   stdout, exception>>

Next ==
    \/ UseGivenFiles
    \/ ScanFoundModels
    \/ ScanFoundNothing
    \/ SkipMissingFile
    \/ ValidateFile
    \/ PrintResult
    \/ Finish

Spec == Init /\ [][Next]_vars

SpecMain == InitMain /\ [][Next]_vars

(***************************************************************************)
(* Vocabulary of the properties.                                           *)
(***************************************************************************)
Exists(f) == f.exists

\* The file the i-th result was built from: main appends one result for
\* each existing file, in order.
FileOf(i) == SelectSeq(model_files, Exists)[i]

Results == 1..Len(results)

\* The container reader yields a Document for the file.
Parsed(f) ==
    /\ f.readable /\ f.magic = GLB_MAGIC /\ f.complete /\ f.payload = "json"
    /\ (f.doc.has_asset \/ f.doc.has_materials \/ f.doc.has_accessors)

IsScaleIssue(issue) == issue.category \in {"scale", "selection"}

IsMaterialIssue(issue) == issue.category = "material"

SevCat(issues) ==
    [k \in 1..Len(issues) |-> <<issues[k].severity, issues[k].category>>]

ScaleIssues(r) == SevCat(SelectSeq(r.issues, IsScaleIssue))

\* The decision table of the threshold classifier, in tenths of a unit.
Table(D) ==
    IF D > 12 THEN << <<"error", "selection">> >>
    ELSE IF D > 10 THEN << <<"warning", "scale">> >>
    ELSE IF D < 3 THEN << <<"warning", "scale">> >>
    ELSE <<>>

\* min and max are present and each has exactly 3 components.
WellFormed(acc) ==
    acc.has_min /\ acc.has_max /\ Len(acc.min) = 3 /\ Len(acc.max) = 3

BoxDim(b) == Max({b.max[j] - b.min[j] : j \in 1..3})

\* The file main is working on when an exception leaves it.
Current == model_files[idx]

(***************************************************************************)
(* C1.  For every aggregated maximum dimension D >= 0 of a successfully    *)
(* parsed file, the scale/selection issues of the result are exactly those *)
(* of the decision table for D (selection error above 1.2, scale warning   *)
(* above 1.0 up to 1.2 and below 0.3, nothing from 0.3 to 1.0), and never  *)
(* more than one.                                                          *)
(***************************************************************************)
C1_ScaleIssuesFunctionOfD ==
    \A i \in Results :
        /\ Len(ScaleIssues(results[i])) <= 1
        /\ Parsed(FileOf(i)) =>
             ScaleIssues(results[i]) = Table(results[i].max_dimension)

\* C1 as amended: the same, for the files in which at least one
\* geometry-bounds descriptor was counted.
C1_ScaleIssuesFunctionOfD_Counted ==
    \A i \in Results :
        /\ Len(ScaleIssues(results[i])) <= 1
        /\ Parsed(FileOf(i)) /\ Len(results[i].bounding_boxes) > 0 =>
             ScaleIssues(results[i]) = Table(results[i].max_dimension)

\* A result at the exclusive boundary D = 1.2: a scale warning, no error.
C1_Witness ==
    \E i \in Results :
        /\ Len(results[i].bounding_boxes) > 0
        /\ results[i].max_dimension = 12
        /\ ScaleIssues(results[i]) = << <<"warning", "scale">> >>

(***************************************************************************)
(* C2.  When the container reader yields no Document for a file (it cannot *)
(* be read, wrong magic number, truncated, invalid UTF-8, malformed JSON), *)
(* validate_model returns a result of exactly one structure/error issue,   *)
(* empty material and bounding-box lists and max dimension 0.0; no later   *)
(* stage runs for the file, and nothing is raised.                         *)
(***************************************************************************)
C2_UnparsedFileGivesOneStructureError ==
    /\ \A i \in Results :
         ~Parsed(FileOf(i)) =>
           /\ SevCat(results[i].issues) = << <<"error", "structure">> >>
           /\ results[i].materials = <<>>
           /\ results[i].bounding_boxes = <<>>
           /\ results[i].max_dimension = 0
           /\ results[i].gltf_transform_output = None
           /\ inspect_runs[i] = NotCalled
    /\ pc = "raised" => Parsed(Current)

\* The result of a file with a wrong magic number whose metadata chunk is fine.
C2_Witness ==
    \E i \in Results :
        /\ FileOf(i).magic # GLB_MAGIC
        /\ FileOf(i).readable /\ FileOf(i).complete
        /\ Len(FileOf(i).doc.materials) > 0
        /\ Len(results[i].issues) = 1

(***************************************************************************)
(* C3.  For a parsed Document with a non-empty material list the result    *)
(* holds one Material record per entry, in list order (index = position,   *)
(* name = declared name or Material_<index>), and exactly one              *)
(* material/error issue naming the material for each entry that has        *)
(* neither a 4-channel base-color factor nor a base-color texture; with no *)
(* material list, or an empty one, it holds one material/error issue and   *)
(* no Material record.  The material check raises nothing.                 *)
(***************************************************************************)
NameOf(mat, k) ==
    IF mat.has_name THEN [text |-> mat.name, index |-> -1]
    ELSE [text |-> "Material_", index |-> k - 1]

HasAppearance(mat) ==
    /\ mat.has_pbr
    /\ \/ mat.has_baseColorFactor /\ Len(mat.baseColorFactor) = 4
       \/ mat.has_baseColorTexture

ShortFactor(mat) ==
    mat.has_pbr /\ mat.has_baseColorFactor /\ Len(mat.baseColorFactor) < 4

MaterialSubjects(r) ==
    LET found == SelectSeq(r.issues, IsMaterialIssue)
    IN [k \in 1..Len(found) |-> found[k].subject]

RECURSIVE WithoutAppearance(_, _)
WithoutAppearance(mats, k) ==
    IF k > Len(mats) THEN <<>>
    ELSE (IF HasAppearance(mats[k]) THEN <<>> ELSE <<NameOf(mats[k], k)>>)
         \o WithoutAppearance(mats, k + 1)

C3_OneRecordPerMaterialOneIssuePerBareMaterial ==
    /\ \A i \in Results :
         Parsed(FileOf(i)) =>
           LET mats == FileOf(i).doc.materials
               r == results[i]
           IN IF ~FileOf(i).doc.has_materials \/ Len(mats) = 0
              THEN /\ r.materials = <<>>
                   /\ MaterialSubjects(r) = <<NoSubject>>
              ELSE /\ Len(r.materials) = Len(mats)
                   /\ \A k \in 1..Len(mats) :
                        /\ r.materials[k].index = k - 1
                        /\ r.materials[k].name = NameOf(mats[k], k)
                   /\ MaterialSubjects(r) = WithoutAppearance(mats, 1)
    /\ pc = "raised" =>
         \A k \in 1..Len(Current.doc.materials) :
             ~ShortFactor(Current.doc.materials[k])

(***************************************************************************)
(* C4.  The exit code of the process is 1 when the scan found no file or a *)
(* validated file has an error-severity issue, and 0 otherwise; warnings   *)
(* alone never make it nonzero.                                            *)
(***************************************************************************)
SomeErrorIssue ==
    \E i \in Results :
        \E k \in 1..Len(results[i].issues) :
            results[i].issues[k].severity = "error"

SomeWarningIssue ==
    \E i \in Results :
        \E k \in 1..Len(results[i].issues) :
            results[i].issues[k].severity = "warning"

NothingDiscovered == Len(args.files) = 0 /\ Len(model_files) = 0

C4_ExitCodeReflectsErrorsOnly ==
    pc \in {"done", "raised"} =>
        process_exit(pc, main_return) =
            IF NothingDiscovered \/ SomeErrorIssue THEN <<1>> ELSE <<0>>

(***************************************************************************)
(* C5.  Every existing file handed to main is validated and yields a       *)
(* result whatever the files before it hold: no problem of a file is       *)
(* raised as a failure of the process, and when main is done there is one  *)
(* result per existing file.                                               *)
(***************************************************************************)
C5_NoFileStopsTheRun ==
    /\ pc # "raised"
    /\ exception = "none"
    /\ pc = "done" /\ ~NothingDiscovered =>
         Len(results) = Len(SelectSeq(model_files, Exists))

(***************************************************************************)
(* C6.  If a parsed Document has no bounds-bearing accessors (the list is  *)
(* absent, empty, or holds only descriptors without well-formed min/max),  *)
(* the max dimension of the result is 0.0 and the result holds no scale    *)
(* and no selection issue.                                                 *)
(***************************************************************************)
NoBoundsBearing(doc) ==
    \/ ~doc.has_accessors
    \/ \A k \in 1..Len(doc.accessors) : ~WellFormed(doc.accessors[k])

C6_NoBoundsNoScaleIssue ==
    \A i \in Results :
        Parsed(FileOf(i)) /\ NoBoundsBearing(FileOf(i).doc) =>
            /\ results[i].max_dimension = 0
            /\ ScaleIssues(results[i]) = <<>>

(***************************************************************************)
(* C7.  The external inspection leaves the issues, the materials, the      *)
(* bounding boxes and the max dimension as they are without it; the report *)
(* field holds the captured standard output exactly when the subprocess    *)
(* exited with code 0 within the timeout, and stays absent on every        *)
(* failure; validate_model returns the result in every outcome.            *)
(***************************************************************************)
Frame(i) ==
    LET without == validate_model(FileOf(i), FALSE, NotCalled).result
    IN /\ results[i].issues = without.issues
       /\ results[i].materials = without.materials
       /\ results[i].bounding_boxes = without.bounding_boxes
       /\ results[i].max_dimension = without.max_dimension

C7_InspectionOnlySetsReport ==
    \A i \in Results :
        /\ Frame(i)
        /\ results[i].gltf_transform_output =
             IF inspect_runs[i].outcome = "exit0"
             THEN Some(inspect_runs[i].stdout)
             ELSE None

\* C7 as amended: the report field holds the captured standard output
\* exactly when the subprocess exited with code 0 and printed something.
C7_InspectionOnlySetsNonEmptyReport ==
    \A i \in Results :
        /\ Frame(i)
        /\ results[i].gltf_transform_output =
             IF inspect_runs[i].outcome = "exit0" /\ inspect_runs[i].stdout # ""
             THEN Some(inspect_runs[i].stdout)
             ELSE None

\* A result with issues whose inspection succeeded and stored its report.
C7_Witness ==
    \E i \in Results :
        /\ inspect_runs[i] = Run("exit0", "report")
        /\ results[i].gltf_transform_output = Some("report")
        /\ Len(results[i].issues) > 0

(***************************************************************************)
(* C8.  A geometry-bounds descriptor is counted (it is in the bounding-box *)
(* list and in the max dimension) if and only if min and max are present   *)
(* and each has exactly 3 components; every other descriptor is skipped,   *)
(* and no descriptor makes the geometry stage raise.                       *)
(***************************************************************************)
RECURSIVE WellFormedIndexes(_, _)
WellFormedIndexes(accs, k) ==
    IF k > Len(accs) THEN <<>>
    ELSE (IF WellFormed(accs[k]) THEN <<k - 1>> ELSE <<>>)
         \o WellFormedIndexes(accs, k + 1)

BoxIndexes(r) == [k \in 1..Len(r.bounding_boxes) |-> r.bounding_boxes[k].accessor]

C8_CountedIffWellFormed ==
    /\ \A i \in Results :
         Parsed(FileOf(i)) /\ FileOf(i).doc.has_accessors =>
           BoxIndexes(results[i]) = WellFormedIndexes(FileOf(i).doc.accessors, 1)
    /\ pc = "raised" /\ exception = "IndexError" =>
         \E k \in 1..Len(Current.doc.materials) :
             ShortFactor(Current.doc.materials[k])

(***************************************************************************)
(* C9.  The max dimension of a result is the maximum of the counted        *)
(* descriptors' max-dimensions (the largest of the three sizes max - min), *)
(* and it is 0.0 only when no descriptor was counted; for descriptors of   *)
(* max-dimension 0.8 and 1.4 it is 1.4, with exactly one selection/error   *)
(* issue, is_healthy() false and has_errors() true.                        *)
(***************************************************************************)
BoxesAreTheCountedOnes(i) ==
    LET accs == FileOf(i).doc.accessors
        boxes == results[i].bounding_boxes
    IN /\ \A k \in 1..Len(boxes) :
            /\ boxes[k].min = accs[boxes[k].accessor + 1].min
            /\ boxes[k].max = accs[boxes[k].accessor + 1].max
            /\ boxes[k].max_dimension = BoxDim(boxes[k])
       /\ Len(boxes) = Cardinality({k \in 1..Len(accs) :
              accs[k].has_min /\ accs[k].has_max /\ Len(accs[k].min) = 3})

BoxDims(r) == {BoxDim(r.bounding_boxes[k]) : k \in 1..Len(r.bounding_boxes)}

Example_08_14(i) ==
    FileOf(i).doc.accessors = <<Box(8), Box(14)>> =>
        /\ results[i].max_dimension = 14
        /\ ScaleIssues(results[i]) = << <<"error", "selection">> >>
        /\ ~is_healthy(results[i])
        /\ has_errors(results[i])

C9_MaxDimensionIsMaxOverCounted ==
    \A i \in Results :
        Parsed(FileOf(i)) /\ FileOf(i).doc.has_accessors =>
            /\ BoxesAreTheCountedOnes(i)
            /\ IF BoxDims(results[i]) = {}
               THEN results[i].max_dimension = 0
               ELSE /\ results[i].max_dimension = Max(BoxDims(results[i]))
                    /\ results[i].max_dimension # 0
            /\ Example_08_14(i)

\* C9 as amended: the max dimension is the maximum of 0.0 and the counted
\* descriptors' max-dimensions.
C9_MaxDimensionIsMaxOverCountedAndZero ==
    \A i \in Results :
        Parsed(FileOf(i)) /\ FileOf(i).doc.has_accessors =>
            /\ BoxesAreTheCountedOnes(i)
            /\ results[i].max_dimension = Max({0} \cup BoxDims(results[i]))
            /\ Example_08_14(i)

\* The result of the two descriptors of max-dimension 0.8 and 1.4.
C9_Witness ==
    \E i \in Results :
        /\ FileOf(i).doc.accessors = <<Box(8), Box(14)>>
        /\ Len(results[i].bounding_boxes) = 2
        /\ results[i].max_dimension = 14

(***************************************************************************)
(* C10.  No scale-factor computation divides by a max dimension of 0,      *)
(* neither in validate_model nor in print_validation_result.               *)
(***************************************************************************)
C10_NoDivisionByZero ==
    /\ \A d \in divisions : d.divisor # 0
    /\ exception # "ZeroDivisionError"

=============================================================================
